---- MODULE Spec2Model ----
(***************************************************************************)
(* A model of raw_organizer.py: the RawOrganizer class and the main()      *)
(* driver.  File names are sequences of one-character strings so that      *)
(* Path.suffix, Path.stem and str.lower() are computed, not assumed.       *)
(***************************************************************************)
EXTENDS Naturals, Integers, Sequences, FiniteSets, TLC

VARIABLES
    argv,            \* the command line of the current invocation
    pc,              \* position of main() in the current invocation
    exit_code,       \* -1 while running, then the process exit code
    fs,              \* the regular files currently in the directory tree
    jpg_files,       \* self.jpg_files
    raw_files,       \* self.raw_files
    deleted_files,   \* self.deleted_files, the accumulator
    orphaned_files,  \* orphaned_files of organize_files
    batch,           \* deleted_files local to delete_files
    idx,             \* loop position of delete_files in files_to_delete
    results,         \* the dict returned by organize_files
    out,             \* notices printed by the current invocation
    response,        \* what input() returned, <<>> wrapped: <<r>> or <<>>
    prompts,         \* number of input() calls of the current invocation
    computations,    \* number of find_orphaned_files calls of the invocation
    attempts,        \* paths on which unlink() was called, in order
    fs0,             \* the tree at the start of the current invocation
    run,             \* ordinal of the current invocation
    prev             \* summary of the preceding invocation

vars == <<argv, pc, exit_code, fs, jpg_files, raw_files, deleted_files,
          orphaned_files, batch, idx, results, out, response, prompts,
          computations, attempts, fs0, run, prev>>

-----------------------------------------------------------------------------
(* Bounds *)

MaxFiles == 3
MaxRuns == 2

-----------------------------------------------------------------------------
(* Strings as character sequences; str.lower() *)

UpperCase == <<"A","B","C","D","E","F","G","J","N","O","P","R","S","T","W","X","Y">>
LowerCase == <<"a","b","c","d","e","f","g","j","n","o","p","r","s","t","w","x","y">>

lower_char(c) ==
    IF \E i \in 1..Len(UpperCase) : UpperCase[i] = c
    THEN LowerCase[CHOOSE i \in 1..Len(UpperCase) : UpperCase[i] = c]
    ELSE c

lower(s) == [i \in 1..Len(s) |-> lower_char(s[i])]

\* str.rfind('.') shifted to 1-based positions; 0 when there is no dot
rfind_dot(s) ==
    IF \E i \in 1..Len(s) : s[i] = "."
    THEN CHOOSE i \in 1..Len(s) : s[i] = "." /\ \A j \in (i+1)..Len(s) : s[j] # "."
    ELSE 0

\* Path.suffix: the last dot must be neither the first nor the last character
suffix(p) ==
    LET i == rfind_dot(p.name)
    IN  IF 1 < i /\ i < Len(p.name) THEN SubSeq(p.name, i, Len(p.name)) ELSE <<>>

\* Path.stem
stem(p) ==
    LET i == rfind_dot(p.name)
    IN  IF 1 < i /\ i < Len(p.name) THEN SubSeq(p.name, 1, i - 1) ELSE p.name

-----------------------------------------------------------------------------
(* The directory trees and command lines explored *)

Path(d, n) == [dir |-> d, name |-> n]

Pool == <<
    Path("d1", <<"a", ".", "j", "p", "g">>),
    Path("d1", <<"a", ".", "c", "r", "2">>),
    Path("d1", <<"b", ".", "c", "r", "2">>),
    Path("d2", <<"a", ".", "C", "R", "2">>),
    Path("d1", <<"A", ".", "n", "e", "f">>),
    Path("d1", <<"b", ".", "J", "P", "E", "G">>),
    Path("d1", <<"a", ".", "t", "x", "t">>),
    Path("d1", <<".", "j", "p", "g">>) >>

PoolSet == {Pool[i] : i \in 1..Len(Pool)}

Trees == {t \in SUBSET PoolSet : Cardinality(t) <= MaxFiles}

ExistingDirs == {"photos"}
Directories == {"photos", "missing"}

\* The command lines: directory, --anchor {jpg,raw}, and whether the
\* --dry-run and --execute flags are present
jpg == <<"j", "p", "g">>
raw == <<"r", "a", "w">>

CommandLines == [directory : Directories, anchor : {jpg, raw},
                 dry_run_given : BOOLEAN, execute_given : BOOLEAN]

\* parser.parse_args(): --dry-run is store_true with default=True, so the
\* parsed value is True whether or not the flag is given
parse_args(c) ==
    [directory |-> c.directory,
     anchor    |-> c.anchor,
     dry_run   |-> IF c.dry_run_given THEN TRUE ELSE TRUE,
     execute   |-> IF c.execute_given THEN TRUE ELSE FALSE]

Responses == { <<"y","e","s">>, <<"Y","E","S">>, <<"Y","e","s">>,
               <<"n","o">>, <<"y">>, <<>>, <<"y","e","s"," ">> }

yes == <<"y", "e", "s">>

-----------------------------------------------------------------------------
(* RawOrganizer *)

jpg_extensions == { <<".","j","p","g">>, <<".","j","p","e","g">> }

raw_extensions == { <<".","c","r","2">>, <<".","c","r","3">>, <<".","n","e","f">>,
                    <<".","a","r","w">>, <<".","d","n","g">>, <<".","o","r","f">>,
                    <<".","r","w","2">>, <<".","p","e","f">>, <<".","s","r","w">>,
                    <<".","x","3","f">> }

\* __init__ without the exists() check
directory_exists_unchecked(d) == TRUE

\* __init__: self.input_directory.exists()
directory_exists(d) == d \in ExistingDirs

\* input_directory.rglob('*') filtered by is_file(): the files of the tree in
\* traversal order
rglob(d, tree) ==
    IF d \in ExistingDirs THEN SelectSeq(Pool, LAMBDA p : p \in tree) ELSE <<>>

\* ext = file_path.suffix: the lower() left out
ext_of_as_written(p) == suffix(p)

\* ext = file_path.suffix.lower()
ext_of(p) == lower(suffix(p))

is_jpg(p) == ext_of(p) \in jpg_extensions

is_raw(p) == ~ (ext_of(p) \in jpg_extensions) /\ ext_of(p) \in raw_extensions

discover_jpg(d, tree) == SelectSeq(rglob(d, tree), is_jpg)

discover_raw(d, tree) == SelectSeq(rglob(d, tree), is_raw)

get_base_name(p) == stem(p)

Range(s) == {s[i] : i \in 1..Len(s)}

\* find_matches without the membership test: every target base counts as matched
find_matches_all(anchor_files, target_files) ==
    {get_base_name(t) : t \in Range(target_files)}

find_matches(anchor_files, target_files) ==
    LET anchor_base_names == {get_base_name(f) : f \in Range(anchor_files)}
    IN  {get_base_name(t) : t \in {u \in Range(target_files) :
                                      get_base_name(u) \in anchor_base_names}}

\* find_orphaned_files keeping the matched targets: "not in" written as "in"
find_orphaned_files_matched(anchor_files, target_files) ==
    LET matching_bases == find_matches(anchor_files, target_files)
    IN  SelectSeq(target_files, LAMBDA t : get_base_name(t) \in matching_bases)

find_orphaned_files(anchor_files, target_files) ==
    LET matching_bases == find_matches(anchor_files, target_files)
    IN  SelectSeq(target_files, LAMBDA t : get_base_name(t) \notin matching_bases)

\* organize_files: the anchor/target selection on anchor_type.lower();
\* "" is the branch that raises ValueError
anchor_name(anchor_type) ==
    IF lower(anchor_type) = jpg THEN "JPG"
    ELSE IF lower(anchor_type) = raw THEN "RAW" ELSE ""

target_name(anchor_type) ==
    IF lower(anchor_type) = jpg THEN "RAW"
    ELSE IF lower(anchor_type) = raw THEN "JPG" ELSE ""

anchor_files_of(anchor_type, jpgs, raws) ==
    IF lower(anchor_type) = jpg THEN jpgs ELSE raws

target_files_of(anchor_type, jpgs, raws) ==
    IF lower(anchor_type) = jpg THEN raws ELSE jpgs

\* an unlink() that removes nothing
unlink_nothing(tree, p) == tree

\* Path.unlink() on a tree
unlink(tree, p) == tree \ {p}

-----------------------------------------------------------------------------
(* main() *)

\* dry_run = args.execute: the negation dropped
dry_run_of_not_negated(a) == a.execute

\* dry_run = not args.execute
dry_run_of(a) == ~ a.execute

\* if not jpg_files or not raw_files
nothing_found_either(jpgs, raws) == jpgs = <<>> \/ raws = <<>>

\* if not jpg_files and not raw_files
nothing_found(jpgs, raws) == jpgs = <<>> /\ raws = <<>>

\* if response != 'yes': the response compared as typed
declined_case_sensitive(r) == r # yes

\* if response.lower() != 'yes'
declined(r) == lower(r) # yes

\* args = parser.parse_args()
args == parse_args(argv)

Notice(k, v) == [k |-> k, v |-> v]

NoResults == [anchor_files |-> <<>>, target_files |-> <<>>,
              orphaned_files |-> <<>>, deleted_files |-> <<>>,
              anchor_type |-> "", target_type |-> ""]

NoPrev == [valid |-> FALSE, anchor |-> <<>>, live |-> FALSE, reported |-> FALSE,
           anchor_files |-> <<>>, orphaned_files |-> <<>>, deleted_files |-> <<>>]

Init ==
    /\ argv \in CommandLines
    /\ fs \in Trees
    /\ fs0 = fs
    /\ pc = "start"
    /\ exit_code = -1
    /\ jpg_files = <<>>
    /\ raw_files = <<>>
    /\ deleted_files = <<>>
    /\ orphaned_files = <<>>
    /\ batch = <<>>
    /\ idx = 0
    /\ results = NoResults
    /\ out = <<>>
    /\ response = <<>>
    /\ prompts = 0
    /\ computations = 0
    /\ attempts = <<>>
    /\ run = 1
    /\ prev = NoPrev

\* except Exception as e: print(f"Error: {e}"); sys.exit(1)
Handler(printed, e) ==
    /\ out' = out \o printed \o << Notice("Error: ", <<e>>) >>
    /\ exit_code' = 1
    /\ pc' = "done"

\* organizer = RawOrganizer(args.directory)
Construct ==
    /\ pc = "start"
    /\ IF directory_exists(args.directory)
       THEN /\ pc' = "constructed"
            /\ UNCHANGED <<out, exit_code>>
       ELSE Handler(<<>>, "FileNotFoundError")
    /\ UNCHANGED <<argv, fs, jpg_files, raw_files, deleted_files, orphaned_files,
                   batch, idx, results, response, prompts, computations,
                   attempts, fs0, run, prev>>

\* jpg_files, raw_files = organizer.discover_files()
Discover ==
    /\ pc = "constructed"
    /\ jpg_files' = discover_jpg(args.directory, fs)
    /\ raw_files' = discover_raw(args.directory, fs)
    /\ out' = out \o << Notice("Scanning directory", <<>>),
                        Notice("Found JPG files", jpg_files'),
                        Notice("Found RAW files", raw_files') >>
    /\ pc' = "scanned"
    /\ UNCHANGED <<argv, exit_code, fs, deleted_files, orphaned_files, batch, idx,
                   results, response, prompts, computations, attempts, fs0, run,
                   prev>>

\* if not jpg_files and not raw_files: print(...); return
NothingFound ==
    /\ pc = "scanned"
    /\ nothing_found(jpg_files, raw_files)
    /\ out' = Append(out, Notice("No JPG or RAW files found in the directory.", <<>>))
    /\ pc' = "done"
    /\ exit_code' = 0
    /\ UNCHANGED <<argv, fs, jpg_files, raw_files, deleted_files, orphaned_files,
                   batch, idx, results, response, prompts, computations,
                   attempts, fs0, run, prev>>

\* if dry_run: print("[DRY RUN MODE] ...")
AnnounceDryRun ==
    /\ pc = "scanned"
    /\ ~ nothing_found(jpg_files, raw_files)
    /\ dry_run_of(args)
    /\ out' = Append(out, Notice("[DRY RUN MODE] - No files will be deleted", <<>>))
    /\ pc' = "organize"
    /\ UNCHANGED <<argv, exit_code, fs, jpg_files, raw_files, deleted_files,
                   orphaned_files, batch, idx, results, response, prompts,
                   computations, attempts, fs0, run, prev>>

\* else: print("[EXECUTION MODE] ..."); response = input(...); the input is read
Confirm ==
    /\ pc = "scanned"
    /\ ~ nothing_found(jpg_files, raw_files)
    /\ ~ dry_run_of(args)
    /\ \E r \in Responses :
        /\ response' = <<r>>
        /\ prompts' = prompts + 1
        /\ IF declined(r)
           THEN /\ out' = out \o << Notice("[EXECUTION MODE] - Files will be deleted!", <<>>),
                                    Notice("Operation cancelled.", <<>>) >>
                /\ pc' = "done"
                /\ exit_code' = 0
           ELSE /\ out' = Append(out, Notice("[EXECUTION MODE] - Files will be deleted!", <<>>))
                /\ pc' = "organize"
                /\ UNCHANGED exit_code
    /\ UNCHANGED <<argv, fs, jpg_files, raw_files, deleted_files, orphaned_files,
                   batch, idx, results, computations, attempts, fs0, run, prev>>

\* input() raises EOFError when standard input is closed
ConfirmEOF ==
    /\ pc = "scanned"
    /\ ~ nothing_found(jpg_files, raw_files)
    /\ ~ dry_run_of(args)
    /\ prompts' = prompts + 1
    /\ Handler(<< Notice("[EXECUTION MODE] - Files will be deleted!", <<>>) >>,
               "EOFError")
    /\ UNCHANGED <<argv, fs, jpg_files, raw_files, deleted_files, orphaned_files,
                   batch, idx, results, response, computations, attempts, fs0,
                   run, prev>>

\* the dict organize_files returns; 'deleted_files' is self.deleted_files
ResultsOf(accumulator, orphans) ==
    [anchor_files   |-> anchor_files_of(args.anchor, jpg_files, raw_files),
     target_files   |-> target_files_of(args.anchor, jpg_files, raw_files),
     orphaned_files |-> orphans,
     deleted_files  |-> accumulator,
     anchor_type    |-> anchor_name(args.anchor),
     target_type    |-> target_name(args.anchor)]

\* results = organizer.organize_files(args.anchor, dry_run), up to the call of
\* delete_files in a live run and to the return otherwise
Organize ==
    /\ pc = "organize"
    /\ IF anchor_name(args.anchor) = ""
       THEN /\ Handler(<<>>, "ValueError")
            /\ UNCHANGED <<orphaned_files, computations, results, idx, batch>>
       ELSE LET orphans == find_orphaned_files(
                               anchor_files_of(args.anchor, jpg_files, raw_files),
                               target_files_of(args.anchor, jpg_files, raw_files))
                head == << Notice("Organizing with anchor", <<>>),
                           Notice("Found orphaned files", orphans) >>
            IN  /\ orphaned_files' = orphans
                /\ computations' = computations + 1
                /\ UNCHANGED exit_code
                /\ IF orphans # <<>> /\ ~ dry_run_of(args)
                   THEN /\ out' = out \o head \o
                                    << Notice("Deleting orphaned files...", orphans) >>
                        /\ idx' = 1
                        /\ batch' = <<>>
                        /\ pc' = "deleting"
                        /\ UNCHANGED results
                   ELSE /\ out' = out \o head \o
                                    (IF orphans # <<>>
                                     THEN << Notice("[DRY RUN] Would delete orphaned files",
                                                    orphans) >>
                                     ELSE <<>>)
                        /\ results' = ResultsOf(deleted_files, orphans)
                        /\ pc' = "report"
                        /\ UNCHANGED <<idx, batch>>
    /\ UNCHANGED <<argv, fs, jpg_files, raw_files, deleted_files, response,
                   prompts, attempts, fs0, run, prev>>

\* a loop iteration of delete_files without the try/except: a failing unlink()
\* leaves the loop and reaches the handler of main
delete_step_uncaught(dry_run) ==
    /\ pc = "deleting"
    /\ idx <= Len(orphaned_files)
    /\ LET file_path == orphaned_files[idx]
       IN  /\ attempts' = Append(attempts, file_path)
           /\ \/ /\ file_path \in fs
                 /\ fs' = unlink(fs, file_path)
                 /\ batch' = Append(batch, file_path)
                 /\ out' = Append(out, Notice("Deleted", <<file_path>>))
                 /\ idx' = idx + 1
                 /\ UNCHANGED <<pc, exit_code>>
              \/ /\ Handler(<<>>, "OSError")
                 /\ UNCHANGED <<fs, batch, idx>>
    /\ UNCHANGED <<argv, jpg_files, raw_files, deleted_files, orphaned_files,
                   results, response, prompts, computations, fs0, run, prev>>

\* one iteration of the loop of delete_files(files_to_delete, dry_run)
delete_step(dry_run) ==
    /\ pc = "deleting"
    /\ idx <= Len(orphaned_files)
    /\ LET file_path == orphaned_files[idx]
       IN  IF ~ dry_run
           THEN /\ attempts' = Append(attempts, file_path)
                /\ \/ /\ file_path \in fs          \* unlink() succeeds
                      /\ fs' = unlink(fs, file_path)
                      /\ batch' = Append(batch, file_path)
                      /\ out' = Append(out, Notice("Deleted", <<file_path>>))
                   \/ /\ UNCHANGED <<fs, batch>>   \* unlink() raises, caught
                      /\ out' = Append(out, Notice("Error deleting", <<file_path>>))
           ELSE /\ out' = Append(out, Notice("[DRY RUN] Would delete", <<file_path>>))
                /\ batch' = Append(batch, file_path)
                /\ UNCHANGED <<fs, attempts>>
    /\ idx' = idx + 1
    /\ UNCHANGED <<argv, pc, exit_code, jpg_files, raw_files, deleted_files,
                   orphaned_files, results, response, prompts, computations,
                   fs0, run, prev>>

\* organize_files calls self.delete_files(orphaned_files, dry_run=False)
DeleteOne == delete_step(FALSE)

\* delete_files returns; self.deleted_files.extend(deleted_files); return {...}
DeleteReturn ==
    /\ pc = "deleting"
    /\ idx > Len(orphaned_files)
    /\ deleted_files' = deleted_files \o batch
    /\ results' = ResultsOf(deleted_files', orphaned_files)
    /\ pc' = "report"
    /\ UNCHANGED <<argv, exit_code, fs, jpg_files, raw_files, orphaned_files,
                   batch, idx, out, response, prompts, computations, attempts,
                   fs0, run, prev>>

\* organizer.print_organization_report(results); main returns
Report ==
    /\ pc = "report"
    /\ out' = out \o << Notice("ORGANIZATION REPORT", <<>>),
                        Notice("Anchor files", results.anchor_files),
                        Notice("Target files", results.target_files),
                        Notice("Orphaned files found", results.orphaned_files),
                        Notice("Files deleted", results.deleted_files) >>
    /\ pc' = "done"
    /\ exit_code' = 0
    /\ UNCHANGED <<argv, fs, jpg_files, raw_files, deleted_files, orphaned_files,
                   batch, idx, results, response, prompts, computations,
                   attempts, fs0, run, prev>>

\* the program is started again on the tree the previous invocation left
NewRun ==
    /\ pc = "done"
    /\ run < MaxRuns
    /\ run' = run + 1
    /\ prev' = [valid          |-> TRUE,
                anchor         |-> args.anchor,
                live           |-> ~ dry_run_of(args),
                reported       |-> results # NoResults,
                anchor_files   |-> results.anchor_files,
                orphaned_files |-> results.orphaned_files,
                deleted_files  |-> results.deleted_files]
    /\ argv' \in CommandLines
    /\ fs0' = fs
    /\ pc' = "start"
    /\ exit_code' = -1
    /\ jpg_files' = <<>>
    /\ raw_files' = <<>>
    /\ deleted_files' = <<>>
    /\ orphaned_files' = <<>>
    /\ batch' = <<>>
    /\ idx' = 0
    /\ results' = NoResults
    /\ out' = <<>>
    /\ response' = <<>>
    /\ prompts' = 0
    /\ computations' = 0
    /\ attempts' = <<>>
    /\ UNCHANGED fs

Next ==
    \/ Construct
    \/ Discover
    \/ NothingFound
    \/ AnnounceDryRun
    \/ Confirm
    \/ ConfirmEOF
    \/ Organize
    \/ DeleteOne
    \/ DeleteReturn
    \/ Report
    \/ NewRun

Spec == Init /\ [][Next]_vars

TypeOK ==
    /\ pc \in {"start", "constructed", "scanned", "organize", "deleting",
               "report", "done"}
    /\ exit_code \in {-1, 0, 1}
    /\ fs \subseteq PoolSet
    /\ run \in 1..MaxRuns

-----------------------------------------------------------------------------
(* Helpers of the properties *)

Anchors == IF argv.anchor = jpg THEN jpg_files ELSE raw_files

Targets == IF argv.anchor = jpg THEN raw_files ELSE jpg_files

Live == argv.execute_given

NoDup(s) == \A i, j \in 1..Len(s) : s[i] = s[j] => i = j

\* s is t with some elements left out, the rest in the order of t
IsSubSeq(s, t) ==
    /\ Len(s) <= Len(t)
    /\ \E f \in [1..Len(s) -> 1..Len(t)] :
          /\ \A i \in 1..Len(s) : s[i] = t[f[i]]
          /\ \A i, j \in 1..Len(s) : i < j => f[i] < f[j]

\* the file name up to its last dot, read off the characters
NameBeforeLastDot(p) ==
    CHOOSE x \in {SubSeq(p.name, 1, k) : k \in 0..Len(p.name)} :
        \/ /\ \E y \in {SubSeq(p.name, k, Len(p.name)) : k \in 1..Len(p.name)} :
                 /\ p.name = x \o y
                 /\ y[1] = "."
                 /\ Len(y) > 1
                 /\ \A i \in 2..Len(y) : y[i] # "."
           /\ x # <<>>
        \/ /\ x = p.name
           /\ ~ \E k \in 2..(Len(p.name) - 1) :
                   /\ p.name[k] = "."
                   /\ \A i \in (k+1)..Len(p.name) : p.name[i] # "."

Printed(k) == \E i \in 1..Len(out) : out[i].k = k

-----------------------------------------------------------------------------
(* Properties *)

\* C1: once organize_files has computed the orphans, the orphan list is the
\* target sequence with exactly those targets left out whose name before the
\* extension equals, character for character, that of some anchor file in any
\* directory; the remaining targets keep their relative order.
C1_OrphansExact ==
    computations > 0 =>
        /\ IsSubSeq(orphaned_files, Targets)
        /\ \A t \in Range(Targets) :
              t \in Range(orphaned_files) <=>
                  ~ \E a \in Range(Anchors) :
                        NameBeforeLastDot(a) = NameBeforeLastDot(t)

C1_Witness ==
    /\ computations > 0
    /\ orphaned_files # <<>>
    /\ \E t \in Range(Targets) :
          /\ t \notin Range(orphaned_files)
          /\ \A a \in Range(Anchors) :
                NameBeforeLastDot(a) = NameBeforeLastDot(t) => a.dir # t.dir
    /\ \E t \in Range(orphaned_files), a \in Range(Anchors) :
          lower(NameBeforeLastDot(a)) = lower(NameBeforeLastDot(t))

\* C2: an invocation without --execute, with or without --dry-run, is a dry
\* run: the tree stays as it was when the invocation started, input() is never
\* called and unlink() is never called; past the nothing-found check it goes on
\* without a prompt to the orphan computation and ends, exit code 0, with the
\* report printed.
C2_NoExecuteIsDryRun ==
    ~ argv.execute_given =>
        /\ fs = fs0
        /\ prompts = 0
        /\ response = <<>>
        /\ attempts = <<>>
        /\ ~ Printed("[EXECUTION MODE] - Files will be deleted!")
        /\ ~ Printed("Operation cancelled.")
        /\ pc \in {"organize", "deleting", "report"} =>
              Printed("[DRY RUN MODE] - No files will be deleted")
        /\ pc # "deleting"
        /\ (pc = "done" /\ Printed("[DRY RUN MODE] - No files will be deleted")) =>
              /\ computations = 1
              /\ Printed("ORGANIZATION REPORT")
              /\ exit_code = 0
        /\ (pc = "done" /\ argv.directory \in ExistingDirs
                        /\ Len(jpg_files) + Len(raw_files) > 0) =>
              Printed("[DRY RUN MODE] - No files will be deleted")

C2_Witness ==
    /\ ~ argv.execute_given
    /\ ~ argv.dry_run_given
    /\ pc = "done"
    /\ Printed("ORGANIZATION REPORT")
    /\ orphaned_files # <<>>
    /\ Range(orphaned_files) \subseteq fs

\* the spellings of yes that differ only in letter case
YesAnyCase == { <<a, b, c>> : a \in {"y", "Y"}, b \in {"e", "E"}, c \in {"s", "S"} }

\* C3: in a live invocation the run gets past the scan to the orphan
\* computation and to deletion only after input() returned yes in some letter
\* case, and every such answer lets it proceed; after any other answer the run
\* is over with "Operation cancelled." printed last, exit code 0, no orphan
\* computation, no unlink() call, the tree untouched and no report.  In every
\* invocation an unlink() call is preceded by such an affirmative answer.
C3_ConfirmationGate ==
    /\ (argv.execute_given /\ (pc \in {"organize", "deleting", "report"}
                                \/ computations > 0)) =>
          /\ prompts = 1
          /\ Len(response) = 1
          /\ response[1] \in YesAnyCase
    /\ (Len(response) = 1 /\ response[1] \in YesAnyCase) =>
          /\ ~ Printed("Operation cancelled.")
          /\ pc = "done" => (computations = 1 /\ Printed("ORGANIZATION REPORT"))
    /\ (Len(response) = 1 /\ response[1] \notin YesAnyCase) =>
          /\ pc = "done"
          /\ exit_code = 0
          /\ out[Len(out)] = Notice("Operation cancelled.", <<>>)
          /\ computations = 0
          /\ attempts = <<>>
          /\ fs = fs0
          /\ ~ Printed("ORGANIZATION REPORT")
    /\ (attempts # <<>> \/ fs # fs0) =>
          /\ Len(response) = 1
          /\ response[1] \in YesAnyCase

C3_Witness ==
    /\ argv.execute_given
    /\ response = << <<"n", "o">> >>
    /\ pc = "done"
    /\ find_orphaned_files(Anchors, Targets) # <<>>

\* C7: when the scan of an existing directory finds neither JPG nor RAW files
\* the run ends right after the scan, exit code 0, with the nothing-found
\* notice printed last and no prompt, orphan computation, unlink() call or
\* report, also with --execute; when the scan finds a file of either class the
\* notice is never printed and the run goes on to the mode announcement.
C7_NothingFoundShortcut ==
    /\ (pc \notin {"start", "constructed"} /\ argv.directory \in ExistingDirs
            /\ Len(jpg_files) + Len(raw_files) = 0) =>
          /\ pc \in {"scanned", "done"}
          /\ prompts = 0
          /\ computations = 0
          /\ attempts = <<>>
          /\ fs = fs0
          /\ ~ Printed("ORGANIZATION REPORT")
          /\ ~ Printed("[DRY RUN MODE] - No files will be deleted")
          /\ ~ Printed("[EXECUTION MODE] - Files will be deleted!")
          /\ pc = "done" =>
                /\ exit_code = 0
                /\ out[Len(out)] =
                       Notice("No JPG or RAW files found in the directory.", <<>>)
    /\ Len(jpg_files) + Len(raw_files) > 0 =>
          /\ ~ Printed("No JPG or RAW files found in the directory.")
          /\ pc = "done" =>
                \/ Printed("[DRY RUN MODE] - No files will be deleted")
                \/ Printed("[EXECUTION MODE] - Files will be deleted!")

C7_Witness ==
    /\ argv.execute_given
    /\ fs0 # {}
    /\ pc = "done"
    /\ Printed("No JPG or RAW files found in the directory.")

\* C8: when the directory does not exist the run ends at the construction of
\* the organizer: exit code 1, the only output the "Error: " line of the
\* not-found error, and no scan, prompt, orphan computation or unlink() call.
\* An "Error: " line is printed exactly when the run exits with code 1, and it
\* is the last thing printed.
C8_ErrorsReachHandler ==
    /\ argv.directory \notin ExistingDirs =>
          /\ pc \in {"start", "done"}
          /\ jpg_files = <<>> /\ raw_files = <<>>
          /\ prompts = 0
          /\ computations = 0
          /\ attempts = <<>>
          /\ fs = fs0
          /\ pc = "done" =>
                /\ exit_code = 1
                /\ out = << Notice("Error: ", <<"FileNotFoundError">>) >>
    /\ Printed("Error: ") <=> exit_code = 1
    /\ Printed("Error: ") =>
          /\ pc = "done"
          /\ out[Len(out)].k = "Error: "
    /\ exit_code = 0 => pc = "done"

C8_Witness ==
    /\ argv.directory \notin ExistingDirs
    /\ argv.execute_given
    /\ pc = "done"
    /\ exit_code = 1

\* the removals that went through: the orphans no longer in the tree
Removed(files) == SelectSeq(files, LAMBDA p : p \notin fs)

\* C4: in a live run unlink() is called on every orphan, in the order of the
\* orphan list; a failing unlink() is reported with "Error deleting" for that
\* file and never reaches the handler of main; the deleted list of the result
\* is the orphan list without the files whose unlink() failed; the run ends
\* with the report printed and exit code 0.
C4_DeletionFailureIsLocal ==
    /\ pc = "deleting" =>
          /\ argv.execute_given
          /\ idx \in 1..(Len(orphaned_files) + 1)
          /\ attempts = SubSeq(orphaned_files, 1, idx - 1)
          /\ batch = Removed(attempts)
    /\ attempts # <<>> =>
          /\ exit_code # 1
          /\ ~ Printed("Error: ")
    /\ (argv.execute_given /\ pc \in {"report", "done"} /\ computations = 1) =>
          /\ attempts = orphaned_files
          /\ results.deleted_files = Removed(orphaned_files)
          /\ \A p \in Range(orphaned_files) :
                /\ p \in fs <=> Printed("Error deleting") /\
                                \E i \in 1..Len(out) :
                                    out[i] = Notice("Error deleting", <<p>>)
                /\ p \notin fs <=> \E i \in 1..Len(out) :
                                    out[i] = Notice("Deleted", <<p>>)
    /\ (argv.execute_given /\ pc = "done" /\ computations = 1) =>
          /\ exit_code = 0
          /\ out[Len(out)] = Notice("Files deleted", Removed(orphaned_files))

C4_Witness ==
    /\ argv.execute_given
    /\ pc = "done"
    /\ exit_code = 0
    /\ \E i, j \in 1..Len(orphaned_files) :
          /\ i < j
          /\ orphaned_files[i] \in fs
          /\ orphaned_files[j] \notin fs

\* C5: in a dry run the deleted list of the result handed to the report is the
\* whole orphan list.
C5_DryRunRecordsOrphans ==
    (~ argv.execute_given /\ pc \in {"report", "done"} /\ computations = 1) =>
        results.deleted_files = results.orphaned_files

\* C6: when the preceding invocation was live and removed every orphan it
\* found, a scan by the next invocation finds none of those files and finds
\* the anchor collection the preceding invocation found; with the same anchor
\* role the orphan computation on the scan yields the empty list.
C6_RescanAfterLiveRun ==
    (/\ prev.valid /\ prev.live /\ prev.reported
     /\ prev.deleted_files = prev.orphaned_files
     /\ prev.anchor = argv.anchor
     /\ argv.directory \in ExistingDirs
     /\ pc \notin {"start", "constructed"}) =>
        /\ Range(prev.orphaned_files) \cap
               (Range(jpg_files) \cup Range(raw_files)) = {}
        /\ Anchors = prev.anchor_files
        /\ find_orphaned_files(Anchors, Targets) = <<>>
        /\ computations > 0 => orphaned_files = <<>>

C6_Witness ==
    /\ prev.valid /\ prev.live /\ prev.reported
    /\ prev.orphaned_files # <<>>
    /\ prev.deleted_files = prev.orphaned_files
    /\ prev.anchor = argv.anchor
    /\ pc = "done"
    /\ computations = 1
    /\ Targets # <<>>

\* x and y are the same up to the case of their letters
SameIgnoringCase(x, y) ==
    /\ Len(x) = Len(y)
    /\ \A i \in 1..Len(x) :
          \/ x[i] = y[i]
          \/ \E k \in 1..Len(UpperCase) : {x[i], y[i]} = {UpperCase[k], LowerCase[k]}

\* the name of p is a non-empty part, a dot, and e in some letter case
HasExtension(p, e) ==
    /\ Len(p.name) > Len(e) + 1
    /\ p.name[Len(p.name) - Len(e)] = "."
    /\ SameIgnoringCase(SubSeq(p.name, Len(p.name) - Len(e) + 1, Len(p.name)), e)

JpegNames == { <<"j","p","g">>, <<"j","p","e","g">> }

RawNames == { <<"c","r","2">>, <<"c","r","3">>, <<"n","e","f">>, <<"a","r","w">>,
              <<"d","n","g">>, <<"o","r","f">>, <<"r","w","2">>, <<"p","e","f">>,
              <<"s","r","w">>, <<"x","3","f">> }

IsJpegName(p) == \E e \in JpegNames : HasExtension(p, e)

IsRawName(p) == \E e \in RawNames : HasExtension(p, e)

\* C9: after the scan of an existing directory a file of the tree is in the
\* JPG collection exactly when its extension is jpg or jpeg in some letter
\* case, in the RAW collection exactly when its extension is one of the ten RAW
\* extensions in some letter case; the collections hold files of the tree only,
\* are disjoint and hold no file twice; the base name used for matching is the
\* name before the last dot, character for character.
C9_ClassificationByExtension ==
    (pc \notin {"start", "constructed"} /\ argv.directory \in ExistingDirs) =>
        /\ \A f \in fs0 :
              /\ f \in Range(jpg_files) <=> IsJpegName(f)
              /\ f \in Range(raw_files) <=> IsRawName(f)
        /\ Range(jpg_files) \cup Range(raw_files) \subseteq fs0
        /\ Range(jpg_files) \cap Range(raw_files) = {}
        /\ NoDup(jpg_files)
        /\ NoDup(raw_files)
        /\ \A f \in Range(jpg_files) \cup Range(raw_files) :
              get_base_name(f) = NameBeforeLastDot(f)

C9_Witness ==
    /\ pc = "scanned"
    /\ \E f \in Range(jpg_files) : suffix(f) # lower(suffix(f))
    /\ \E f \in Range(raw_files) : suffix(f) # lower(suffix(f))
    /\ \E f \in fs0 : f \notin Range(jpg_files) \cup Range(raw_files)

IsPrefix(s, t) == Len(s) <= Len(t) /\ s = SubSeq(t, 1, Len(s))

AnchorClass(p) == IF argv.anchor = jpg THEN IsJpegName(p) ELSE IsRawName(p)

TargetClass(p) == IF argv.anchor = jpg THEN IsRawName(p) ELSE IsJpegName(p)

C10_OnlyOrphansRemoved ==
    /\ fs \subseteq fs0
    /\ \A p \in fs0 \ fs :
          /\ p \in Range(orphaned_files)
          /\ TargetClass(p)
          /\ ~ AnchorClass(p)
          /\ ~ \E a \in fs0 :
                  AnchorClass(a) /\ NameBeforeLastDot(a) = NameBeforeLastDot(p)
    /\ NoDup(attempts)
    /\ Range(attempts) \subseteq Range(orphaned_files)
    /\ IsSubSeq(deleted_files, orphaned_files)
    /\ IsSubSeq(batch, orphaned_files)
    /\ IsSubSeq(results.deleted_files, orphaned_files)

C10_AccumulatorGrows ==
    run' = run => IsPrefix(deleted_files, deleted_files')

\* C10: within an invocation, for either anchor role and in either mode, the
\* files gone from the tree are orphans of the target class with no anchor-class
\* file of the same base name in the tree; unlink() is called at most once per
\* orphan; the accumulator self.deleted_files is a sub-sequence of the orphan
\* list and every step leaves it a prefix of its new value.
C10_DeletionSafety ==
    /\ []C10_OnlyOrphansRemoved
    /\ [][C10_AccumulatorGrows]_vars

C10_Witness ==
    /\ fs # fs0
    /\ deleted_files # <<>>
    /\ \E a \in fs : AnchorClass(a)
    /\ \E u \in fs : ~ AnchorClass(u) /\ ~ TargetClass(u)

====
